---- MODULE Spec2Model ----
(***************************************************************************)
(* gostatic: a command that walks directory trees, gzips every file,       *)
(* encodes the compressed bytes as text (radix-256 in the first program of *)
(* src/main.go, radix-64 in the second) and renders a Go source file whose *)
(* init decodes the entries back into a path -> bytes map.                 *)
(*                                                                         *)
(* Strings are sequences of Unicode code points, byte strings are          *)
(* sequences of 0..255.                                                    *)
(***************************************************************************)
EXTENDS Integers, Sequences, FiniteSets, TLC

\* -------------------------------------------------------------------------
\* Bounds of the model
\* -------------------------------------------------------------------------
MaxRawLen == 2
MaxNameLen == 4
MaxCorruptLen == 48
MaxArgs == 2

RECURSIVE SeqsUpTo(_, _)
SeqsUpTo(S, n) ==
    IF n = 0 THEN {<<>>}
    ELSE LET shorter == SeqsUpTo(S, n - 1)
         IN  shorter \cup {Append(s, x) : s \in shorter, x \in S}

Variants == {"radix256", "radix64"}

\* -------------------------------------------------------------------------
\* compress/gzip as used by writeDirectory and by the generated init
\* -------------------------------------------------------------------------
RECURSIVE Xor(_, _)
Xor(a, b) ==
    IF a = 0 THEN b
    ELSE IF b = 0 THEN a
    ELSE ((a + b) % 2) + 2 * Xor(a \div 2, b \div 2)

\* A 32-bit word as two 16-bit halves.
Word(n) == [hi |-> n \div 65536, lo |-> n % 65536]

ShrW(w, k) == [hi |-> w.hi \div (2 ^ k),
               lo |-> (w.lo \div (2 ^ k)) + (w.hi % (2 ^ k)) * (2 ^ (16 - k))]

\* crc32.IEEE, reversed: 0xedb88320
IEEEPoly == [hi |-> 60856, lo |-> 33568]

RECURSIVE CrcShift(_, _)
CrcShift(c, k) ==
    IF k = 0 THEN c
    ELSE CrcShift(IF c.lo % 2 = 1
                  THEN [hi |-> Xor(c.hi \div 2, IEEEPoly.hi),
                        lo |-> Xor(ShrW(c, 1).lo, IEEEPoly.lo)]
                  ELSE ShrW(c, 1), k - 1)

\* crc32.IEEETable
CrcTable == [i \in 0..255 |-> CrcShift(Word(i), 8)]

\* The xor of two bytes.
XorByte == [a \in 0..255 |-> [b \in 0..255 |-> Xor(a, b)]]

Xor16(a, b) == XorByte[a % 256][b % 256] + 256 * XorByte[a \div 256][b \div 256]

XorW(v, w) == [hi |-> Xor16(v.hi, w.hi), lo |-> Xor16(v.lo, w.lo)]

CrcUpdate(crc, b) == XorW(CrcTable[XorByte[crc.lo % 256][b]], ShrW(crc, 8))

\* The digest after bytes lo..hi of data, from digest crc before them (the
\* range is halved so that the evaluation stays shallow on long inputs).
RECURSIVE CrcFold(_, _, _, _)
CrcFold(crc, data, lo, hi) ==
    IF lo > hi THEN crc
    ELSE IF lo = hi THEN CrcUpdate(crc, data[lo])
    ELSE LET mid  == (lo + hi) \div 2
             left == CrcFold(crc, data, lo, mid)
         IN  IF left.lo >= 0 THEN CrcFold(left, data, mid + 1, hi) ELSE left

AllOnes == [hi |-> 65535, lo |-> 65535]

\* hash/crc32 (IEEE), the digest of a gzip member
CRC32(data) == XorW(CrcFold(AllOnes, data, 1, Len(data)), AllOnes)

Le16(n) == <<n % 256, (n \div 256) % 256>>
Le32(w) == Le16(w.lo) \o Le16(w.hi)

\* RFC 1952 member header: ID1 ID2 CM FLG MTIME(4) XFL OS, as gzip.NewWriter
\* writes it when no Header field is set.
GzipHeader == <<31, 139, 8, 0, 0, 0, 0, 0, 0, 255>>

\* The final empty stored block that flate's Close writes.
FinalStored == <<1, 0, 0, 255, 255>>

\* RFC 1951 stream of data in stored blocks: one block holding the bytes,
\* then the final empty block of Close.
Deflate(data) ==
    IF Len(data) = 0 THEN FinalStored
    ELSE <<0>> \o Le16(Len(data)) \o Le16(65535 - Len(data)) \o data \o FinalStored

\* gw.Write(data); gw.Close(); buf.Bytes()
Gzip(data) ==
    GzipHeader \o Deflate(data) \o Le32(CRC32(data)) \o Le32(Word(Len(data)))

Failed == [ok |-> FALSE, data |-> <<>>]
Ok(d) == [ok |-> TRUE, data |-> d]

Drop(s, n) == IF n >= Len(s) THEN <<>> ELSE SubSeq(s, n + 1, Len(s))
Take(s, n) == IF n >= Len(s) THEN s ELSE SubSeq(s, 1, n)

\* Index of the first 0 byte of s, 0 when there is none.
ZeroAt(s) ==
    LET Z == {i \in 1..Len(s) : s[i] = 0}
    IN  IF Z = {} THEN 0 ELSE CHOOSE i \in Z : \A j \in Z : i <= j

HasBit(n, k) == (n \div (2 ^ k)) % 2 = 1

\* Inflate of a byte-aligned stream: [st, data, rest]; st is "ok", "err"
\* (flate.CorruptInputError or io.ErrUnexpectedEOF) or "huffman" (a block of
\* type 01 or 10, outside the stored-block streams this model produces).
RECURSIVE Inflate(_, _)
Inflate(z, acc) ==
    IF Len(z) = 0 THEN [st |-> "err", data |-> acc, rest |-> <<>>]
    ELSE LET final == z[1] % 2 = 1
             btype == (z[1] \div 2) % 4
         IN  IF btype = 3 THEN [st |-> "err", data |-> acc, rest |-> <<>>]
             ELSE IF btype # 0 THEN [st |-> "huffman", data |-> acc, rest |-> <<>>]
             ELSE IF Len(z) < 5 THEN [st |-> "err", data |-> acc, rest |-> <<>>]
             ELSE LET n    == z[2] + 256 * z[3]
                      nn   == z[4] + 256 * z[5]
                      body == Drop(z, 5)
                  IN  IF nn # 65535 - n \/ Len(body) < n
                      THEN [st |-> "err", data |-> acc, rest |-> <<>>]
                      ELSE IF final
                      THEN [st |-> "ok", data |-> acc \o Take(body, n), rest |-> Drop(body, n)]
                      ELSE Inflate(Drop(body, n), acc \o Take(body, n))

\* The optional header fields gzip.Reader skips: [ok, rest].
SkipExtra(flg, z) ==
    IF ~HasBit(flg, 2) THEN Ok(z)
    ELSE IF Len(z) < 2 \/ Len(z) < 2 + z[1] + 256 * z[2] THEN Failed
    ELSE Ok(Drop(z, 2 + z[1] + 256 * z[2]))

SkipString(has, r) ==
    IF ~r.ok \/ ~has THEN r
    ELSE IF ZeroAt(r.data) = 0 THEN Failed
    ELSE Ok(Drop(r.data, ZeroAt(r.data)))

SkipHdrCrc(flg, r, hdr) ==
    IF ~r.ok \/ ~HasBit(flg, 1) THEN r
    ELSE IF Len(r.data) < 2 THEN Failed
    ELSE IF r.data[1] + 256 * r.data[2] # CRC32(hdr) % 65536 THEN Failed
    ELSE Ok(Drop(r.data, 2))

\* gzip.NewReader followed by ioutil.ReadAll: every member of the stream is
\* read (multistream), each checked against its CRC-32 and size.  The result
\* is [st, data] with st "ok", "err" or "huffman".
RECURSIVE GunzipMembers(_, _)
GunzipMembers(z, acc) ==
    IF Len(z) < 10 \/ z[1] # 31 \/ z[2] # 139 \/ z[3] # 8
    THEN [st |-> "err", data |-> <<>>]
    ELSE LET flg  == z[4]
             e    == SkipExtra(flg, Drop(z, 10))
             n    == SkipString(HasBit(flg, 3), e)
             c    == SkipString(HasBit(flg, 4), n)
             h    == SkipHdrCrc(flg, c, Take(z, Len(z) - Len(c.data)))
         IN  IF ~h.ok THEN [st |-> "err", data |-> <<>>]
             ELSE LET f == Inflate(h.data, <<>>)
                  IN  IF f.st # "ok" THEN [st |-> f.st, data |-> <<>>]
                      ELSE IF Len(f.rest) < 8 THEN [st |-> "err", data |-> <<>>]
                      ELSE IF Take(f.rest, 4) # Le32(CRC32(f.data))
                              \/ SubSeq(f.rest, 5, 8) # Le32(Word(Len(f.data)))
                      THEN [st |-> "err", data |-> <<>>]
                      ELSE IF Len(f.rest) = 8 THEN [st |-> "ok", data |-> acc \o f.data]
                      ELSE GunzipMembers(Drop(f.rest, 8), acc \o f.data)

Gunzip(z) == GunzipMembers(z, <<>>)

\* -------------------------------------------------------------------------
\* Textual encodings
\* -------------------------------------------------------------------------
\* base256 := 'a' in the generated init
base256 == 97

\* base256.StdEncoding.EncodeToString: byte v becomes the code point 'a' + v.
EncodeToString256(src) == [i \in 1..Len(src) |-> base256 + src[i]]

\* decode with the offset forgotten: byte(r)
decodeNoOffset(src) == [i \in 1..Len(src) |-> src[i] % 256]

\* decode of the generated init: every rune r of the literal gives
\* byte(r - base256); the conversion to byte keeps the low 8 bits.
decode(src) == [i \in 1..Len(src) |-> (src[i] - base256) % 256]

\* The alphabet of base64.StdEncoding.
B64Char(v) ==
    IF v < 26 THEN 65 + v
    ELSE IF v < 52 THEN 97 + (v - 26)
    ELSE IF v < 62 THEN 48 + (v - 52)
    ELSE IF v = 62 THEN 43 ELSE 47

\* Its decode map: 255 for a character outside the alphabet.
B64Val(c) ==
    IF c >= 65 /\ c <= 90 THEN c - 65
    ELSE IF c >= 97 /\ c <= 122 THEN c - 97 + 26
    ELSE IF c >= 48 /\ c <= 57 THEN c - 48 + 52
    ELSE IF c = 43 THEN 62
    ELSE IF c = 47 THEN 63 ELSE 255

ByteAt(src, i) == IF i <= Len(src) THEN src[i] ELSE 0

\* base64.StdEncoding.EncodeToString: 3 bytes give 4 characters, the last
\* group is padded with '=' (61).
EncodeToString64(src) ==
    [j \in 1..(4 * ((Len(src) + 2) \div 3)) |->
        LET q  == (j - 1) \div 4
            k  == (j - 1) % 4
            b0 == ByteAt(src, 3 * q + 1)
            b1 == ByteAt(src, 3 * q + 2)
            b2 == ByteAt(src, 3 * q + 3)
            have == Len(src) - 3 * q
        IN  IF k = 0 THEN B64Char(b0 \div 4)
            ELSE IF k = 1 THEN B64Char((b0 % 4) * 16 + b1 \div 16)
            ELSE IF k = 2 THEN (IF have < 2 THEN 61
                                ELSE B64Char((b1 % 16) * 4 + b2 \div 64))
            ELSE (IF have < 3 THEN 61 ELSE B64Char(b2 % 64))]

\* The bytes of the first n characters of s (all of the alphabet): whole
\* groups of 4 give 3 bytes, a last group of 2 or 3 gives 1 or 2 bytes and
\* its left-over bits are dropped (the decoder is not in Strict mode).
B64Bytes(s, n) ==
    LET nbytes == 3 * (n \div 4) + (IF n % 4 = 0 THEN 0 ELSE (n % 4) - 1)
        V(i)   == IF i <= n THEN B64Val(s[i]) ELSE 0
    IN  [k \in 1..nbytes |->
            LET q == (k - 1) \div 3
                r == (k - 1) % 3
                v0 == V(4 * q + 1)
                v1 == V(4 * q + 2)
                v2 == V(4 * q + 3)
                v3 == V(4 * q + 4)
            IN  IF r = 0 THEN v0 * 4 + v1 \div 16
                ELSE IF r = 1 THEN (v1 % 16) * 16 + v2 \div 4
                ELSE (v2 % 4) * 64 + v3]

NotNewline(c) == c # 10 /\ c # 13

\* base64.StdEncoding.DecodeString: '\r' and '\n' are skipped wherever they
\* stand; a character outside the alphabet, padding in the wrong place,
\* missing padding or anything after the padding is a CorruptInputError.
DecodeString64(text) ==
    LET s   == SelectSeq(text, NotNewline)
        n   == Len(s)
        Bad == {i \in 1..n : B64Val(s[i]) = 255}
        p   == IF Bad = {} THEN 0 ELSE CHOOSE i \in Bad : \A j \in Bad : i <= j
        j   == (p - 1) % 4
    IN  IF p = 0 THEN (IF n % 4 = 0 THEN Ok(B64Bytes(s, n)) ELSE Failed)
        ELSE IF s[p] # 61 THEN Failed
        ELSE IF j < 2 THEN Failed
        ELSE IF j = 2 /\ (n # p + 1 \/ s[n] # 61) THEN Failed
        ELSE IF j = 3 /\ n # p THEN Failed
        ELSE Ok(B64Bytes(s, p - 1))

\* -------------------------------------------------------------------------
\* The literals of the generated file
\* -------------------------------------------------------------------------
\* The value of the raw string literal `text` (radix-256 data): a back quote
\* ends the literal early, so the file no longer compiles; carriage returns
\* are discarded from the value.
RawLiteral(text) ==
    IF \E i \in 1..Len(text) : text[i] = 96 THEN Failed
    ELSE Ok(SelectSeq(text, LAMBDA c : c # 13))

\* The character a backslash escape of one character stands for, 0 when the
\* pair is no such escape.
EscapeValue(c) ==
    CASE c = 97  -> 7
      [] c = 98  -> 8
      [] c = 102 -> 12
      [] c = 110 -> 10
      [] c = 114 -> 13
      [] c = 116 -> 9
      [] c = 118 -> 11
      [] c = 92  -> 92
      [] c = 34  -> 34
      [] OTHER   -> 0

RECURSIVE Unescape(_, _, _)
Unescape(text, i, acc) ==
    IF i > Len(text) THEN Ok(acc)
    ELSE IF text[i] = 34 \/ text[i] = 10 THEN Failed
    ELSE IF text[i] # 92 THEN Unescape(text, i + 1, Append(acc, text[i]))
    ELSE IF i = Len(text) \/ EscapeValue(text[i + 1]) = 0 THEN Failed
    ELSE Unescape(text, i + 2, Append(acc, EscapeValue(text[i + 1])))

\* The value of the interpreted string literal "text" (entry names, radix-64
\* data): text/template writes the text as it is, and the Go compiler reads
\* backslash escapes in it; a bare double quote, a newline or an unknown
\* escape makes the file not compile.  Text without any of the three
\* characters stands for itself.
InterpretedLiteral(text) ==
    IF \A i \in 1..Len(text) : text[i] \notin {34, 92, 10} THEN Ok(text)
    ELSE Unescape(text, 1, <<>>)

\* -------------------------------------------------------------------------
\* The Entry Codec, as the two programs of src/main.go use it
\* -------------------------------------------------------------------------
\* writeDirectory: gzip the file, then encode the compressed bytes as text.
EncodeEntry(v, data) ==
    IF v = "radix256" THEN EncodeToString256(Gzip(data))
    ELSE EncodeToString64(Gzip(data))

\* The value the generated file's data literal has for the text spliced in.
DataLiteral(v, text) ==
    IF v = "radix256" THEN RawLiteral(text) ELSE InterpretedLiteral(text)

\* The body of init's loop on one literal value: textual decode, then
\* gzip.NewReader and ioutil.ReadAll; any error is a log.Panicf.
\* [st, data] with st "ok", "err" or "huffman".
DecodeEntry(v, lit) ==
    LET bytes == IF v = "radix256" THEN Ok(decode(lit)) ELSE DecodeString64(lit)
    IN  IF ~bytes.ok THEN [st |-> "err", data |-> <<>>]
        ELSE Gunzip(bytes.data)

\* -------------------------------------------------------------------------
\* The Identifier Deriver: snakify and camelize
\* -------------------------------------------------------------------------
\* unicode.IsLetter on the characters of the model: ASCII, Latin-1 and the
\* CJK unified ideographs.
IsLetter(r) ==
    \/ r >= 65 /\ r <= 90
    \/ r >= 97 /\ r <= 122
    \/ r \in {170, 181, 186}
    \/ r >= 192 /\ r <= 214
    \/ r >= 216 /\ r <= 246
    \/ r >= 248 /\ r <= 255
    \/ r \in {376, 924}
    \/ r >= 19968 /\ r <= 40959

\* unicode.ToUpper on the same characters: U+00DF, U+00AA, U+00BA and the
\* ideographs have no upper case and map to themselves.
ToUpper(r) ==
    IF r >= 97 /\ r <= 122 THEN r - 32
    ELSE IF r >= 224 /\ r <= 254 /\ r # 247 THEN r - 32
    ELSE IF r = 255 THEN 376
    ELSE IF r = 181 THEN 924
    ELSE r

\* unicode.IsUpper
IsUpper(r) ==
    \/ r >= 65 /\ r <= 90
    \/ r >= 192 /\ r <= 222 /\ r # 215
    \/ r \in {376, 924}

\* The number of bytes of r in UTF-8.
RuneLen(r) == IF r < 128 THEN 1 ELSE IF r < 2048 THEN 2 ELSE IF r < 65536 THEN 3 ELSE 4

\* len(input): the length of the string in bytes.
RECURSIVE ByteLen(_)
ByteLen(input) ==
    IF input = <<>> THEN 0 ELSE RuneLen(Head(input)) + ByteLen(Tail(input))

\* The loop of snakify; i is the index in []rune(input), from 0.
RECURSIVE snakifyLoop(_, _, _, _)
snakifyLoop(input, i, out, lastWasSnake) ==
    IF i >= Len(input) THEN out
    ELSE LET r == input[i + 1]
         IN  IF IsLetter(r) THEN snakifyLoop(input, i + 1, Append(out, r), FALSE)
             ELSE IF lastWasSnake THEN snakifyLoop(input, i + 1, out, lastWasSnake)
             ELSE IF i # ByteLen(input) - 1
             THEN snakifyLoop(input, i + 1, Append(out, 95), lastWasSnake)
             ELSE snakifyLoop(input, i + 1, out, lastWasSnake)

snakify(input) == snakifyLoop(input, 0, <<>>, TRUE)

RECURSIVE camelizeLoop(_, _, _, _)
camelizeLoop(input, i, out, needCamel) ==
    IF i > Len(input) THEN out
    ELSE LET r == input[i]
         IN  IF IsLetter(r) /\ needCamel
             THEN camelizeLoop(input, i + 1, Append(out, ToUpper(r)), FALSE)
             ELSE IF IsLetter(r) /\ ~needCamel
             THEN camelizeLoop(input, i + 1, Append(out, r), needCamel)
             ELSE camelizeLoop(input, i + 1, out, TRUE)

\* camelize that copies the letters and never upper-cases one
camelizeKeepCase(input) == SelectSeq(input, IsLetter)

camelize(input) == camelizeLoop(input, 1, <<>>, TRUE)

\* -------------------------------------------------------------------------
\* State
\* -------------------------------------------------------------------------
VARIABLES
    variant,    \* which program of src/main.go runs: "radix256" or "radix64"
    input,      \* the string given to snakify and camelize
    stem,       \* the result of snakify(input), once computed
    ident,      \* the result of camelize(input), once computed
    raw,        \* a file's bytes
    text,       \* the text writeDirectory stores for raw
    changed,    \* the text was altered in the generated file: [pos, from, to]
    lit,        \* the value of the data literal in the generated file
    out,        \* what init's decode and gunzip made of lit
    pkgname,    \* the package name (flag -pkgname)
    args,       \* the directory arguments
    pkgDir,     \* the package directory: "absent", "present", "denied", "created"
    pc,         \* where main is: "start", "mkdir", "loop", "done", "fatal", "panic"
    files,      \* the files of the package directory: name -> content
    calls,      \* one record per call of writeDirectory, in order
    elog,       \* the lines written to the error log
    exitCode,   \* the exit status of the process, -1 while it runs
    unit,       \* a generated file: [root, variant, RootName, RootMap]
    upc,        \* the program that imports it: "file", "nocompile", "init", "ready", "panic"
    compressed, \* init's array of {name, data}, the values of the literals
    idx,        \* the index of init's loop in compressed
    decoded,    \* the names init has decoded, in order
    decompressed, \* the package-level map name -> bytes
    got,        \* what the last Get or List call returned
    held        \* the caller's copy of it: the readers and the map it uses

nameVars  == <<input, stem, ident>>
codecVars == <<raw, text, changed, lit, out>>
mainVars  == <<pkgname, args, pkgDir, pc, files, calls, elog, exitCode>>
unitVars  == <<unit, upc, compressed, idx, decoded, decompressed, got, held>>
vars == <<variant, nameVars, codecVars, mainVars, unitVars>>

Unset == [set |-> FALSE, v |-> <<>>]
Set(x) == [set |-> TRUE, v |-> x]
NoChange == [name |-> <<>>, pos |-> 0, from |-> 0, to |-> 0]
NoUnit == [root |-> <<>>, variant |-> "", RootName |-> <<>>, RootMap |-> <<>>]
NotCalled == [op |-> "none"]

NameIdle  == input = <<>> /\ stem = Unset /\ ident = Unset
MainIdle  ==
    /\ pkgname = <<>> /\ args = <<>> /\ pkgDir = "absent" /\ pc = "idle"
    /\ files = <<>> /\ calls = <<>> /\ elog = <<>> /\ exitCode = -1
UnitIdle  ==
    /\ unit = NoUnit /\ upc = "idle" /\ compressed = <<>> /\ idx = 0
    /\ decoded = <<>> /\ decompressed = <<>> /\ got = NotCalled /\ held = NotCalled
CodecIdle == raw = <<>> /\ text = Unset /\ changed = NoChange /\ lit = Unset /\ out = Unset

\* -------------------------------------------------------------------------
\* NameSpec: snakify and camelize on every string of a bounded set
\* -------------------------------------------------------------------------
\* 'a', 'B', '-', U+00E9 (2 bytes), U+00DF (no upper case), U+4E2D (3 bytes)
NameAlphabet == {97, 66, 45, 233, 223, 20013}

\* "static", "static/", "my-assets/dir"
StrStatic      == <<115, 116, 97, 116, 105, 99>>
StrStaticSlash == <<115, 116, 97, 116, 105, 99, 47>>
StrMyAssetsDir == <<109, 121, 45, 97, 115, 115, 101, 116, 115, 47, 100, 105, 114>>

NameInputs == SeqsUpTo(NameAlphabet, MaxNameLen) \cup {StrStatic, StrStaticSlash, StrMyAssetsDir}

NameInit ==
    /\ input \in NameInputs
    /\ stem = Unset
    /\ ident = Unset
    /\ variant = "radix256"
    /\ CodecIdle
    /\ MainIdle
    /\ UnitIdle

Snakify ==
    /\ ~stem.set
    /\ stem' = Set(snakify(input))
    /\ UNCHANGED <<variant, input, ident, codecVars, mainVars, unitVars>>

Camelize ==
    /\ ~ident.set
    /\ ident' = Set(camelize(input))
    /\ UNCHANGED <<variant, input, stem, codecVars, mainVars, unitVars>>

NameNext == Snakify \/ Camelize

NameSpec == NameInit /\ [][NameNext]_vars

\* -------------------------------------------------------------------------
\* CodecSpec: one file's bytes through writeDirectory's encoding, the
\* generated literal and init's decoding
\* -------------------------------------------------------------------------
\* NUL, carriage return, back quote, 0xff
SampleBytes == {0, 13, 96, 255}

\* every byte value once
AllBytes == [i \in 1..256 |-> i - 1]

RawInputs == SeqsUpTo(SampleBytes, MaxRawLen) \cup {AllBytes}

CodecInit ==
    /\ variant \in Variants
    /\ raw \in RawInputs
    /\ text = Unset
    /\ changed = NoChange
    /\ lit = Unset
    /\ out = Unset
    /\ NameIdle
    /\ MainIdle
    /\ UnitIdle

\* writeDirectory, the part of the walk callback that encodes one file
Encode ==
    /\ ~text.set
    /\ text' = Set(EncodeEntry(variant, raw))
    /\ UNCHANGED <<variant, nameVars, mainVars, unitVars, raw, changed, lit, out>>

\* The characters that may take the place of character c of a stored text:
\* none of them ends or escapes the literal.
Replacements(v, c) ==
    IF v = "radix256"
    THEN {c + 256, base256 + ((c - base256 + 1) % 256)}
    ELSE {IF B64Val(c) = 255 THEN 65 ELSE B64Char((B64Val(c) + 1) % 64), 33}

Replace(t, i, c) == [t EXCEPT ![i] = c]

\* One character of the stored text is replaced by another one in the
\* generated file.  A replacement that turns a stored block into a Huffman
\* block leaves the streams of this model and is not taken.
Corrupt ==
    /\ text.set /\ ~lit.set /\ changed = NoChange
    /\ Len(text.v) <= MaxCorruptLen
    /\ \E i \in 1..Len(text.v) : \E c \in Replacements(variant, text.v[i]) :
          /\ c # text.v[i]
          /\ DecodeEntry(variant, Replace(text.v, i, c)).st # "huffman"
          /\ text' = Set(Replace(text.v, i, c))
          /\ changed' = [name |-> <<>>, pos |-> i, from |-> text.v[i], to |-> c]
    /\ UNCHANGED <<variant, nameVars, mainVars, unitVars, raw, lit, out>>

\* The template splices the text into the literal; the compiler gives the
\* literal its value.
Embed ==
    /\ text.set /\ ~lit.set
    /\ lit' = [set |-> TRUE] @@ DataLiteral(variant, text.v)
    /\ UNCHANGED <<variant, nameVars, mainVars, unitVars, raw, text, changed, out>>

\* init of the generated file on this entry
Decode ==
    /\ lit.set /\ lit.ok /\ ~out.set
    /\ out' = [set |-> TRUE] @@ DecodeEntry(variant, lit.data)
    /\ UNCHANGED <<variant, nameVars, mainVars, unitVars, raw, text, changed, lit>>

CodecNext == Encode \/ Corrupt \/ Embed \/ Decode

CodecSpec == CodecInit /\ [][CodecNext]_vars

\* -------------------------------------------------------------------------
\* Spec: main and writeDirectory on a list of directory arguments
\* -------------------------------------------------------------------------
\* "staticfs" (the default), "helloworld"
StrStaticfs   == <<115, 116, 97, 116, 105, 99, 102, 115>>
StrHelloworld == <<104, 101, 108, 108, 111, 119, 111, 114, 108, 100>>

\* "missing", "a-b", "a_b", "w"
StrMissing == <<109, 105, 115, 115, 105, 110, 103>>
StrADashB  == <<97, 45, 98>>
StrAUnderB == <<97, 95, 98>>
StrW       == <<119>>

\* The directory arguments of the model.
Roots == {StrStaticSlash, StrMyAssetsDir, StrMissing, StrADashB, StrAUnderB, StrW}

\* "hello"
BytesHello == <<104, 101, 108, 108, 111>>

Dir(n)     == [name |-> n, kind |-> "dir", data |-> <<>>]
File(n, d) == [name |-> n, kind |-> "file", data |-> d]

\* What filepath.Walk visits under each root, in its (lexical) order.
\*   static/        a.txt ("hello"), sub/, sub/b.txt (empty), z (0xff)
\*   my-assets/dir  x (0x00 0xff)
\*   missing        does not exist
\*   a-b            no file
\*   a_b            a file named c\td (with a backslash)
\*   w              a file named "q (with a double quote)
Tree(root) ==
    CASE root = StrStaticSlash ->
            <<Dir(StrStaticSlash),
              File(<<115, 116, 97, 116, 105, 99, 47, 97, 46, 116, 120, 116>>, BytesHello),
              Dir(<<115, 116, 97, 116, 105, 99, 47, 115, 117, 98>>),
              File(<<115, 116, 97, 116, 105, 99, 47, 115, 117, 98, 47, 98, 46, 116, 120, 116>>, <<>>),
              File(<<115, 116, 97, 116, 105, 99, 47, 122>>, <<255>>)>>
      [] root = StrMyAssetsDir ->
            <<Dir(StrMyAssetsDir),
              File(<<109, 121, 45, 97, 115, 115, 101, 116, 115, 47, 100, 105, 114, 47, 120>>, <<0, 255>>)>>
      [] root = StrADashB -> <<Dir(StrADashB)>>
      [] root = StrAUnderB ->
            <<Dir(StrAUnderB),
              File(<<97, 95, 98, 47, 99, 92, 116, 100>>, <<13, 96>>)>>
      [] root = StrW ->
            <<Dir(StrW), File(<<119, 47, 34, 113>>, <<96>>)>>
      [] OTHER -> <<Dir(root)>>

\* os.Lstat(root) succeeds
Exists(root) == root # StrMissing

\* An assignment that is lost.
PutDropped(m, k, x) == m

\* fakefs[name] = text
Put(m, k, x) == [y \in (DOMAIN m) \cup {k} |-> IF y = k THEN x ELSE m[y]]

\* The state of one walk: the locals of writeDirectory that the callback
\* closes over, the names the callback was called with, the error lines it
\* logged and what it returned last ("nil", "err" or "panic").
WalkStart ==
    [fakefs |-> <<>>, totalSize |-> 0, compressSize |-> 0,
     visited |-> <<>>, lines |-> <<>>, ret |-> "nil"]

\* A callback that logs a read error and goes on with the walk.
CallbackSkipUnreadable(v, e, o, st) ==
    LET st1 == [st EXCEPT !.visited = Append(@, e.name)]
    IN  IF o = "nofi" THEN [st1 EXCEPT !.ret = "panic"]
        ELSE IF e.kind = "dir" THEN [st1 EXCEPT !.ret = IF o = "err" THEN "err" ELSE "nil"]
        ELSE IF o = "err"
        THEN [st1 EXCEPT !.lines = Append(@, [msg |-> "couldn't read", arg |-> e.name]),
                         !.ret = "nil"]
        ELSE [st1 EXCEPT !.totalSize = @ + Len(e.data),
                         !.compressSize = @ + Len(Gzip(e.data)),
                         !.fakefs = Put(@, e.name, EncodeEntry(v, e.data)),
                         !.ret = "nil"]

\* The callback given to filepath.Walk, called on entry e.  o is what the
\* file system does for e: "ok"; "nofi": Lstat failed, so fi is nil and err
\* is set; "err": the directory cannot be listed (err is set), or
\* ioutil.ReadFile fails.
Callback(v, e, o, st) ==
    LET st1 == [st EXCEPT !.visited = Append(@, e.name)]
    IN  IF o = "nofi" THEN [st1 EXCEPT !.ret = "panic"]
        ELSE IF e.kind = "dir" THEN [st1 EXCEPT !.ret = IF o = "err" THEN "err" ELSE "nil"]
        ELSE IF o = "err"
        THEN [st1 EXCEPT !.lines = Append(@, [msg |-> "couldn't read", arg |-> e.name]),
                         !.ret = "err"]
        ELSE [st1 EXCEPT !.totalSize = @ + Len(e.data),
                         !.compressSize = @ + Len(Gzip(e.data)),
                         !.fakefs = Put(@, e.name, EncodeEntry(v, e.data)),
                         !.ret = "nil"]

\* filepath.Walk: the callback on every entry in turn, until it returns an
\* error (or panics).  Entry f fails as `how` says, the others are fine.
\* (The one-element set binds the state after an entry to its value.)
RECURSIVE Walk(_, _, _, _, _, _)
Walk(v, tree, f, how, i, st) ==
    IF i > Len(tree) \/ st.ret # "nil" THEN st
    ELSE CHOOSE r \in {Walk(v, tree, f, how, i + 1, s) :
                         s \in {Callback(v, tree[i], IF i = f THEN how ELSE "ok", st)}} : TRUE

\* A join that leaves the directory out.
JoinNoDir(dir, name) == name

\* filepath.Join(pkgname, name)
Join(dir, name) == dir \o <<47>> \o name

\* ".go"
DotGo == <<46, 103, 111>>

\* writeDirectory(dirname).  fin is what the file system does for the output
\* file: "ok", or the step that fails: "create", "execute", "close".
\* The result: err is "nil", "walk", "create", "execute", "close" or "panic".
writeDirectory(v, pkg, dirname, f, how, fin) ==
    LET destfilename == Join(pkg, snakify(dirname) \o DotGo)
        destfunction == camelize(dirname)
        Result(w, err, named, created, complete) ==
            [root |-> dirname, err |-> err, visited |-> w.visited,
             lines |-> w.lines, fakefs |-> w.fakefs,
             destfilename |-> IF named THEN destfilename ELSE <<>>,
             destfunction |-> IF named THEN destfunction ELSE <<>>,
             created |-> created, complete |-> complete]
        After(w) ==
            IF w.ret = "panic" THEN Result(w, "panic", FALSE, FALSE, FALSE)
            ELSE IF w.ret = "err" THEN Result(w, "walk", FALSE, FALSE, FALSE)
            ELSE IF fin = "create" THEN Result(w, "create", TRUE, FALSE, FALSE)
            ELSE IF fin = "execute" THEN Result(w, "execute", TRUE, TRUE, FALSE)
            ELSE Result(w, IF fin = "close" THEN "close" ELSE "nil", TRUE, TRUE, TRUE)
    IN  CHOOSE r \in {After(w) : w \in {Walk(v, Tree(dirname), f, how, 1, WalkStart)}} : TRUE

\* What the output file holds after the call r: the rendering of the
\* template for the bundle, cut short when Execute failed.
Content(v, pkg, r) ==
    [PkgName |-> pkg, RootName |-> r.destfunction, RootMap |-> r.fakefs,
     variant |-> v, complete |-> r.complete]

\* "Get", "List"
StrGet == <<71, 101, 116>>
StrList == <<76, 105, 115, 116>>

\* The functions a generated file declares: Get<RootName>, and in the
\* radix-256 program List<RootName>.
Accessors(u) ==
    {StrGet \o u.RootName} \cup
    (IF u.variant = "radix256" THEN {StrList \o u.RootName} ELSE {})

Init ==
    /\ variant \in Variants
    /\ pkgname \in (IF variant = "radix256" THEN {StrStaticfs, StrHelloworld} ELSE {StrStaticfs})
    /\ args \in SeqsUpTo(Roots, MaxArgs)
    /\ pkgDir \in {"absent", "present", "denied"}
    /\ pc = "start"
    /\ files = <<>>
    /\ calls = <<>>
    /\ elog = <<>>
    /\ exitCode = -1
    /\ NameIdle
    /\ CodecIdle
    /\ UnitIdle

\* main: no directory argument is fatal.
CheckArgs ==
    /\ pc = "start"
    /\ IF Len(args) < 1
       THEN /\ pc' = "fatal"
            /\ exitCode' = 1
            /\ elog' = Append(elog, [msg |-> "Need to specify at least one directory.", arg |-> <<>>])
       ELSE /\ pc' = "mkdir"
            /\ UNCHANGED <<exitCode, elog>>
    /\ UNCHANGED <<variant, nameVars, codecVars, unitVars, pkgname, args, pkgDir, files, calls>>

\* A main that goes on to the loop whether or not os.Mkdir succeeded.
MkdirIgnoreError ==
    /\ pc = "mkdir"
    /\ pkgDir' = IF pkgDir = "absent" THEN "created" ELSE pkgDir
    /\ pc' = "loop"
    /\ UNCHANGED <<exitCode, elog>>
    /\ UNCHANGED <<variant, nameVars, codecVars, unitVars, pkgname, args, files, calls>>

\* main: os.Mkdir(pkgname, 0744); an error (the directory exists, or cannot
\* be created) is fatal.
Mkdir ==
    /\ pc = "mkdir"
    /\ IF pkgDir = "absent"
       THEN /\ pkgDir' = "created"
            /\ pc' = "loop"
            /\ UNCHANGED <<exitCode, elog>>
       ELSE /\ pc' = "fatal"
            /\ exitCode' = 1
            /\ elog' = Append(elog, [msg |-> "Couldn't create package directory", arg |-> pkgname])
            /\ UNCHANGED pkgDir
    /\ UNCHANGED <<variant, nameVars, codecVars, unitVars, pkgname, args, files, calls>>

\* What the file system may do during one walk: nothing goes wrong, or one
\* entry fails (a directory that cannot be listed, a file that cannot be
\* read); a root that does not exist fails in Lstat.
Outcomes(dirname) ==
    IF Exists(dirname)
    THEN {[f |-> 0, how |-> "ok"]} \cup {[f |-> k, how |-> "err"] : k \in 1..Len(Tree(dirname))}
    ELSE {[f |-> 1, how |-> "nofi"]}

\* main: one turn of the loop over the arguments, the call of writeDirectory
\* included.  A panic of the callback ends the process; after the last
\* argument main returns.
WriteDir ==
    /\ pc = "loop"
    /\ Len(calls) < Len(args)
    /\ \E o \in Outcomes(args[Len(calls) + 1]) :
       \E fin \in (IF o.f = 0 THEN {"ok", "create", "execute", "close"} ELSE {"ok"}) :
       \E r \in {writeDirectory(variant, pkgname, args[Len(calls) + 1], o.f, o.how, fin)} :
          LET arg  == args[Len(calls) + 1]
              last == Len(calls) + 1 = Len(args)
          IN  /\ calls' = Append(calls, r)
              /\ files' = IF r.created THEN Put(files, r.destfilename, Content(variant, pkgname, r))
                          ELSE files
              /\ IF r.err = "panic"
                 THEN /\ pc' = "panic"
                      /\ exitCode' = 2
                      /\ elog' = elog \o r.lines
                 ELSE /\ pc' = IF last THEN "done" ELSE "loop"
                      /\ exitCode' = IF last THEN 0 ELSE exitCode
                      /\ elog' = elog \o r.lines \o
                                 (IF r.err # "nil"
                                  THEN <<[msg |-> "Failed to snapshot", arg |-> arg]>>
                                  ELSE <<>>)
    /\ UNCHANGED <<variant, nameVars, codecVars, unitVars, pkgname, args, pkgDir>>

Next == CheckArgs \/ Mkdir \/ WriteDir

Spec == Init /\ [][Next]_vars

\* -------------------------------------------------------------------------
\* UnitSpec: a program that imports a generated file
\* -------------------------------------------------------------------------
\* s sorts before t (the order of Go strings, for the ASCII names of the model)
RECURSIVE Less(_, _)
Less(s, t) ==
    IF s = <<>> THEN t # <<>>
    ELSE IF t = <<>> THEN FALSE
    ELSE IF Head(s) # Head(t) THEN Head(s) < Head(t)
    ELSE Less(Tail(s), Tail(t))

\* The keys of map m in the order in which the template ranges over it.
RECURSIVE SortedKeys(_)
SortedKeys(K) ==
    IF K = {} THEN <<>>
    ELSE LET least == CHOOSE k \in K : \A j \in K \ {k} : Less(k, j)
         IN  <<least>> \o SortedKeys(K \ {least})

\* The roots whose directory exists: the files generated for them.
Generated(root, v) ==
    LET r == writeDirectory(v, StrStaticfs, root, 0, "ok", "ok")
    IN  [root |-> root, variant |-> v, RootName |-> r.destfunction, RootMap |-> r.fakefs]

\* "nope"
StrNope == <<110, 111, 112, 101>>

UnitInit ==
    /\ variant \in Variants
    /\ \E root \in {r \in Roots : Exists(r)} : unit = Generated(root, variant)
    /\ upc = "file"
    /\ compressed = <<>>
    /\ idx = 0
    /\ decoded = <<>>
    /\ decompressed = <<>>
    /\ got = NotCalled
    /\ held = NotCalled
    /\ changed = NoChange
    /\ raw = <<>> /\ text = Unset /\ lit = Unset /\ out = Unset
    /\ NameIdle
    /\ MainIdle

\* The compressed array as the compiler reads it from the file: one element
\* per entry of RootMap, each with the values of its two literals.
Literals(u) ==
    LET keys == SortedKeys(DOMAIN u.RootMap)
    IN  [k \in 1..Len(keys) |->
            [name |-> InterpretedLiteral(keys[k]),
             data |-> DataLiteral(u.variant, u.RootMap[keys[k]])]]

\* One character of one data literal of the file is replaced by another
\* (as in Corrupt of CodecSpec).
CorruptUnit ==
    /\ upc = "file" /\ changed = NoChange
    /\ \E n \in DOMAIN unit.RootMap : \E i \in 1..Len(unit.RootMap[n]) :
       \E c \in Replacements(variant, unit.RootMap[n][i]) :
          /\ c # unit.RootMap[n][i]
          /\ DecodeEntry(variant, Replace(unit.RootMap[n], i, c)).st # "huffman"
          /\ unit' = [unit EXCEPT !.RootMap[n] = Replace(@, i, c)]
          /\ changed' = [name |-> n, pos |-> i, from |-> unit.RootMap[n][i], to |-> c]
    /\ UNCHANGED <<variant, nameVars, mainVars, raw, text, lit, out,
                   upc, compressed, idx, decoded, decompressed, got, held>>

\* The file is compiled into a program and the program starts: the package
\* variable decompressed is an empty map and init begins.  A literal that is
\* no valid Go literal stops the build.
Load ==
    /\ upc = "file"
    /\ \E ls \in {Literals(unit)} :
          IF \E k \in 1..Len(ls) : ~ls[k].name.ok \/ ~ls[k].data.ok
          THEN /\ upc' = "nocompile"
               /\ UNCHANGED <<compressed, idx>>
          ELSE /\ upc' = "init"
               /\ compressed' = [k \in 1..Len(ls) |->
                                    [name |-> ls[k].name.data, data |-> ls[k].data.data]]
               /\ idx' = 1
    /\ UNCHANGED <<variant, nameVars, mainVars, codecVars, unit, decoded, decompressed, got, held>>

\* An init that leaves out an entry it cannot decode and goes on.
InitStepSkipBad ==
    /\ upc = "init"
    /\ IF idx > Len(compressed)
       THEN /\ upc' = "ready"
            /\ UNCHANGED <<idx, decoded, decompressed>>
       ELSE \E r \in {DecodeEntry(variant, compressed[idx].data)} :
               IF r.st # "ok"
               THEN /\ idx' = idx + 1
                    /\ UNCHANGED <<upc, decoded, decompressed>>
               ELSE /\ decompressed' = Put(decompressed, compressed[idx].name, r.data)
                    /\ decoded' = Append(decoded, compressed[idx].name)
                    /\ idx' = idx + 1
                    /\ UNCHANGED upc
    /\ UNCHANGED <<variant, nameVars, mainVars, codecVars, unit, compressed, got, held>>

\* init: one turn of the loop over compressed; log.Panicf ends the program.
\* After the last element init returns and the program's main may run.
InitStep ==
    /\ upc = "init"
    /\ IF idx > Len(compressed)
       THEN /\ upc' = "ready"
            /\ UNCHANGED <<idx, decoded, decompressed>>
       ELSE \E r \in {DecodeEntry(variant, compressed[idx].data)} :
               IF r.st # "ok"
               THEN /\ upc' = "panic"
                    /\ UNCHANGED <<idx, decoded, decompressed>>
               ELSE /\ decompressed' = Put(decompressed, compressed[idx].name, r.data)
                    /\ decoded' = Append(decoded, compressed[idx].name)
                    /\ idx' = idx + 1
                    /\ UNCHANGED upc
    /\ UNCHANGED <<variant, nameVars, mainVars, codecVars, unit, compressed, got, held>>

\* The paths the program looks up: the paths of the bundle, the keys of the
\* map, and one that is neither.
LookupPaths == (DOMAIN unit.RootMap) \cup (DOMAIN decompressed) \cup {StrNope}

\* Get<RootName>(filename): the reader over decompressed[filename], and
\* whether the key is in the map.
Get ==
    /\ upc = "ready"
    /\ \E filename \in LookupPaths :
          got' = [op |-> "Get", filename |-> filename,
                  ok |-> filename \in DOMAIN decompressed,
                  data |-> IF filename \in DOMAIN decompressed
                           THEN decompressed[filename] ELSE <<>>,
                  offset |-> 0]
    /\ held' = got'
    /\ UNCHANGED <<variant, nameVars, mainVars, codecVars, unit, upc, compressed, idx,
                   decoded, decompressed>>

\* List<RootName>() of the radix-256 program: a new map with a reader for
\* every key of decompressed.
List ==
    /\ upc = "ready"
    /\ variant = "radix256"
    /\ got' = [op |-> "List",
               readers |-> [k \in DOMAIN decompressed |->
                               [data |-> decompressed[k], offset |-> 0]]]
    /\ held' = got'
    /\ UNCHANGED <<variant, nameVars, mainVars, codecVars, unit, upc, compressed, idx,
                   decoded, decompressed>>

\* m without the key k: delete(m, k)
Delete(m, k) == [y \in (DOMAIN m) \ {k} |-> m[y]]

\* The caller uses what it was returned: it reads n bytes from a reader
\* (Read and Seek move the reader's offset; bytes.Reader gives no way to
\* write to the bytes), or deletes a key of the map List returned, or puts a
\* reader of its own under a key of that map.
Use ==
    /\ upc = "ready"
    /\ held = got
    /\ \/ /\ held.op = "Get"
          /\ \E n \in 1..(Len(held.data) + 1) : held' = [held EXCEPT !.offset = n]
       \/ /\ held.op = "List"
          /\ \E k \in DOMAIN held.readers :
                \/ held' = [held EXCEPT !.readers[k].offset = Len(held.readers[k].data) + 1]
                \/ held' = [held EXCEPT !.readers = Delete(@, k)]
                \/ held' = [held EXCEPT !.readers[k] = [data |-> <<0>>, offset |-> 0]]
    /\ UNCHANGED <<variant, nameVars, mainVars, codecVars, unit, upc, compressed, idx,
                   decoded, decompressed, got>>

UnitNext == CorruptUnit \/ Load \/ InitStep \/ Get \/ List \/ Use

UnitSpec == UnitInit /\ [][UnitNext]_vars

\* -------------------------------------------------------------------------
\* Properties of the Identifier Deriver (NameSpec)
\* -------------------------------------------------------------------------
HasLetter(s) == \E i \in 1..Len(s) : IsLetter(s[i])

FirstLetter(s) == s[CHOOSE i \in 1..Len(s) : IsLetter(s[i]) /\ \A j \in 1..(i - 1) : ~IsLetter(s[j])]

\* C3: the result of snakify never contains two consecutive separators '_'
\* (every maximal run of non-alphabetic characters gives a single one).
C3_NoDoubleSeparator ==
    stem.set => \A i \in 1..(Len(stem.v) - 1) : ~(stem.v[i] = 95 /\ stem.v[i + 1] = 95)

\* C4: the result of snakify never starts with the separator '_' and never
\* ends with it.
C4_NoEdgeSeparator ==
    (stem.set /\ stem.v # <<>>) => (stem.v[1] # 95 /\ stem.v[Len(stem.v)] # 95)

\* C5 as stated: the result of camelize holds only alphabetic characters, its
\* first character, if any, is upper case, and it is empty exactly when the
\* input has no alphabetic character.
C5_FirstIsUpper ==
    ident.set =>
        /\ \A i \in 1..Len(ident.v) : IsLetter(ident.v[i])
        /\ ident.v # <<>> => IsUpper(ident.v[1])
        /\ ident.v = <<>> <=> ~HasLetter(input)

\* C5 amended: the result of camelize holds only alphabetic characters; it is
\* empty exactly when the input has no alphabetic character; otherwise its
\* first character is unicode.ToUpper of the input's first alphabetic
\* character, which is upper case whenever that character is ASCII or has an
\* upper-case form, and is the character itself when it has none.
C5_FirstIsToUpper ==
    ident.set =>
        /\ \A i \in 1..Len(ident.v) : IsLetter(ident.v[i])
        /\ ident.v = <<>> <=> ~HasLetter(input)
        /\ ident.v # <<>> =>
              LET l == FirstLetter(input)
              IN  /\ ident.v[1] = ToUpper(l)
                  /\ IsUpper(ident.v[1]) \/ ident.v[1] = l
                  /\ l < 128 => IsUpper(ident.v[1])

\* camelize has run on an input whose first letter has no upper-case form
C5_Witness ==
    ident.set /\ ident.v # <<>> /\ ~IsUpper(ident.v[1]) /\ Len(input) >= 2

\* -------------------------------------------------------------------------
\* Properties of the Entry Codec (CodecSpec)
\* -------------------------------------------------------------------------
\* C1: the text writeDirectory stores for the bytes b of a file, embedded in
\* the generated literal as it is and given to init's decode and gunzip, yields
\* exactly b, in the radix-256 and in the radix-64 program.
C1_RoundTrip ==
    /\ (lit.set /\ changed = NoChange) => (lit.ok /\ lit.data = text.v)
    /\ (out.set /\ changed = NoChange) => (out.st = "ok" /\ out.data = raw)

\* every byte value 0..255 has gone through the radix-256 round trip
C1_Witness ==
    out.set /\ changed = NoChange /\ raw = AllBytes /\ variant = "radix256"

\* C9: replacing one character of a stored text by a different character
\* makes init's decoding of it fail.
C9_CorruptionFails ==
    (out.set /\ changed # NoChange) => out.st = "err"

\* -------------------------------------------------------------------------
\* Properties of the Bundle Builder (Spec)
\* -------------------------------------------------------------------------
\* The calls of writeDirectory that returned an error to main.
Returned(c) == c.err \notin {"nil", "panic"}

\* The roots of the "Failed to snapshot" lines of the log, in order.
FailedLines == SelectSeq(elog, LAMBDA l : l.msg = "Failed to snapshot")

\* C2: per-root isolation.  When the process is over after the package
\* directory was made, writeDirectory has been called on every argument, in
\* the order of the arguments, and every call that returned an error has its
\* "Failed to snapshot" line in the log: no failure on one root keeps the
\* later roots from being processed.
C2_EveryRootProcessed ==
    (pc \in {"done", "panic"}) =>
        /\ Len(calls) = Len(args)
        /\ \A i \in 1..Len(calls) : calls[i].root = args[i]
        /\ LET failed == SelectSeq(calls, Returned)
           IN  /\ Len(FailedLines) = Len(failed)
               /\ \A k \in 1..Len(failed) : FailedLines[k].arg = failed[k].root

\* "Static", "MyAssetsDir", "my_assets_dir", "static.go", "GetStatic", "ListStatic"
StrStaticId == <<83, 116, 97, 116, 105, 99>>
StrMyAssetsDirId == <<77, 121, 65, 115, 115, 101, 116, 115, 68, 105, 114>>
StrMyAssetsDirStem == <<109, 121, 95, 97, 115, 115, 101, 116, 115, 95, 100, 105, 114>>
StrStaticGo == <<115, 116, 97, 116, 105, 99, 46, 103, 111>>
StrGetStatic == <<71, 101, 116, 83, 116, 97, 116, 105, 99>>
StrListStatic == <<76, 105, 115, 116, 83, 116, 97, 116, 105, 99>>

\* The calls that got as far as naming the output file.
Named(c) == c.err \notin {"walk", "panic"}

\* C6: naming of a root.  camelize("static") = "Static",
\* camelize("my-assets/dir") = "MyAssetsDir", snakify("my-assets/dir") =
\* "my_assets_dir"; the call for the root "static/" names the file
\* <pkgname>/static.go and, once created, the file declares GetStatic (and
\* ListStatic in the radix-256 program, the one with -pkgname); every call
\* names the file snakify(r).go inside the package directory and the file it
\* creates is filed under that name and carries camelize(r) as RootName.
C6_Naming ==
    /\ camelize(StrStatic) = StrStaticId
    /\ camelize(StrMyAssetsDir) = StrMyAssetsDirId
    /\ snakify(StrMyAssetsDir) = StrMyAssetsDirStem
    /\ \A i \in 1..Len(calls) :
          LET c == calls[i]
          IN  Named(c) =>
                /\ c.destfilename = pkgname \o <<47>> \o snakify(c.root) \o DotGo
                /\ c.destfunction = camelize(c.root)
                /\ c.created =>
                      /\ c.destfilename \in DOMAIN files
                      /\ i = Len(calls) => files[c.destfilename].RootName = camelize(c.root)
                /\ c.root = StrStaticSlash =>
                      /\ c.destfilename = pkgname \o <<47>> \o StrStaticGo
                      /\ c.destfunction = StrStaticId
                      /\ (c.created /\ i = Len(calls)) =>
                            /\ StrGetStatic \in Accessors(files[c.destfilename])
                            /\ variant = "radix256" =>
                                  Accessors(files[c.destfilename]) = {StrGetStatic, StrListStatic}

\* The example of the README: gostatic -pkgname helloworld static/ has
\* written helloworld/static.go.
C6_Witness ==
    /\ variant = "radix256"
    /\ pkgname = StrHelloworld
    /\ args = <<StrStaticSlash>>
    /\ pc = "done"
    /\ calls[1].err = "nil"
    /\ (StrHelloworld \o <<47>> \o StrStaticGo) \in DOMAIN files

\* The calls in which ioutil.ReadFile failed, and the file it failed on.
ReadFailed(c) == c.lines # <<>>
Unread(c) == c.lines[1].arg

\* The names of the files under a root, and the names among the first n
\* entries that Walk visits.
FilesOf(root) == {Tree(root)[k].name : k \in {j \in 1..Len(Tree(root)) : Tree(root)[j].kind = "file"}}
FilesBefore(root, n) == {Tree(root)[k].name : k \in {j \in 1..(n - 1) : Tree(root)[j].kind = "file"}}

\* C10 as stated: a read error is reported but does not abort the walk: every
\* file of the root is still visited, the unread file is not in the bundle,
\* the files that were read are, and writeDirectory returns an error.
C10_ReadErrorDoesNotAbort ==
    \A i \in 1..Len(calls) :
       LET c == calls[i]
       IN  ReadFailed(c) =>
             /\ \A n \in FilesOf(c.root) : \E k \in 1..Len(c.visited) : c.visited[k] = n
             /\ Unread(c) \notin DOMAIN c.fakefs
             /\ DOMAIN c.fakefs = FilesOf(c.root) \ {Unread(c)}
             /\ Returned(c)

\* C10 as the code has it: a read error is logged and ends the walk of that
\* root at that file: no later entry is visited, the mapping holds the files
\* read before it and not the unread one, and it is dropped: the call names
\* and creates no output file and returns the error; main logs "Failed to
\* snapshot" and goes on with the next argument.
C10_ReadErrorEndsWalk ==
    \A i \in 1..Len(calls) :
       LET c == calls[i]
           n == Len(c.visited)
       IN  ReadFailed(c) =>
             /\ c.visited = [k \in 1..n |-> Tree(c.root)[k].name]
             /\ c.visited[n] = Unread(c)
             /\ Len(c.lines) = 1
             /\ \E k \in 1..Len(elog) : elog[k] = [msg |-> "couldn't read", arg |-> Unread(c)]
             /\ Unread(c) \notin DOMAIN c.fakefs
             /\ DOMAIN c.fakefs = FilesBefore(c.root, n)
             /\ c.err = "walk"
             /\ ~c.created /\ c.destfilename = <<>>
             /\ \E k \in 1..Len(elog) : elog[k] = [msg |-> "Failed to snapshot", arg |-> c.root]
             /\ pc # "panic" \/ i < Len(calls)
             /\ (i = Len(calls) /\ i < Len(args)) => pc = "loop"

\* A read error on the second file of static/: one file was read before it,
\* one file comes after it, and another argument follows.
C10_Witness ==
    /\ Len(calls) = 2
    /\ calls[1].root = StrStaticSlash
    /\ ReadFailed(calls[1])
    /\ DOMAIN calls[1].fakefs # {}
    /\ FilesOf(StrStaticSlash) \ (DOMAIN calls[1].fakefs \cup {Unread(calls[1])}) # {}
    /\ calls[2].err = "nil"

\* The bytes of the file named p under root.
BytesOf(root, p) ==
    LET tree == Tree(root)
    IN  tree[CHOOSE k \in 1..Len(tree) : tree[k].kind = "file" /\ tree[k].name = p].data

\* C11: bundle contents.  A call whose walk returned no error visited every
\* entry of the root once, and its mapping has exactly one key per file the
\* walk reported, the path as reported, and none for a directory; the text
\* under each key (checked on the latest call) is a valid literal that
\* init's decode turns back into the bytes of the file.  A root without
\* files gives the empty mapping, and when the file system does not fail
\* the call creates and renders the output file and returns nil.
C11_BundleContents ==
    /\ \A i \in 1..Len(calls) :
          LET c == calls[i]
          IN  Named(c) =>
                /\ c.visited = [k \in 1..Len(Tree(c.root)) |-> Tree(c.root)[k].name]
                /\ DOMAIN c.fakefs = FilesOf(c.root)
                /\ c.lines = <<>>
                /\ i = Len(calls) =>
                      \A p \in DOMAIN c.fakefs :
                         LET l == DataLiteral(variant, c.fakefs[p])
                         IN  /\ l.ok
                             /\ DecodeEntry(variant, l.data) = [st |-> "ok", data |-> BytesOf(c.root, p)]
                /\ (c.created /\ c.complete /\ i = Len(calls)) =>
                      /\ c.destfilename \in DOMAIN files
                      /\ files[c.destfilename].RootMap = c.fakefs
    /\ FilesOf(StrADashB) = {}
    /\ LET r == writeDirectory(variant, pkgname, StrADashB, 0, "ok", "ok")
       IN  /\ r.err = "nil"
           /\ r.fakefs = <<>>
           /\ r.created /\ r.complete
           /\ Content(variant, pkgname, r).RootMap = <<>>

\* Two roots were built: static/ with its three files under two levels, and
\* then a-b, which has no file, and its file holds the empty mapping.
C11_Witness ==
    /\ Len(calls) = 2
    /\ calls[1].root = StrStaticSlash /\ calls[1].err = "nil"
    /\ Cardinality(DOMAIN calls[1].fakefs) = 3
    /\ calls[2].root = StrADashB /\ calls[2].err = "nil"
    /\ calls[2].fakefs = <<>>
    /\ files[calls[2].destfilename].RootMap = <<>>
    /\ files[calls[2].destfilename].complete

\* C12: exit behaviour.  When main has returned, the exit status is other
\* than 0 exactly when some call of writeDirectory returned an error; and at
\* any time every output file a call created is still there, whatever
\* happened to the roots after it.
C12_ExitReflectsFailure ==
    /\ pc = "done" => (exitCode # 0 <=> \E i \in 1..Len(calls) : Returned(calls[i]))
    /\ \A i \in 1..Len(calls) : calls[i].created => calls[i].destfilename \in DOMAIN files

\* C13: startup ordering.  The package directory is made only after the
\* check for an argument, and a root is processed or a file written only
\* after the directory was made by this run.  Without an argument the run
\* is fatal (status 1) with no directory made, no root processed and no file
\* written; a directory that exists or cannot be made is fatal (status 1)
\* before any root is touched; a fatal run has done nothing else.
C13_StartupOrder ==
    /\ pkgDir = "created" => (Len(args) >= 1 /\ pc \notin {"start", "mkdir", "fatal"})
    /\ (calls # <<>> \/ files # <<>>) => (pkgDir = "created" /\ Len(args) >= 1)
    /\ pc \in {"loop", "done", "panic"} => pkgDir = "created"
    /\ Len(args) = 0 =>
          /\ pc \in {"start", "fatal"}
          /\ pkgDir # "created" /\ calls = <<>> /\ files = <<>>
    /\ pkgDir \in {"present", "denied"} =>
          /\ pc \in {"start", "mkdir", "fatal"}
          /\ calls = <<>> /\ files = <<>>
    /\ pc = "fatal" =>
          /\ exitCode = 1
          /\ calls = <<>> /\ files = <<>> /\ pkgDir # "created"
          /\ Len(elog) = 1
          /\ elog[1].msg = (IF Len(args) = 0 THEN "Need to specify at least one directory."
                            ELSE "Couldn't create package directory")
    /\ pc = "mkdir" => (Len(args) >= 1 /\ elog = <<>>)

\* Two roots were given and the package directory was already there: the
\* run was fatal with neither root touched.
C13_Witness ==
    /\ pc = "fatal"
    /\ Len(args) = 2
    /\ pkgDir = "present"
    /\ calls = <<>> /\ files = <<>>

\* C15: output independence of roots.  Two calls for different arguments
\* name different output files and different accessor identifiers; and when
\* main has returned, the output file of every call that returned nil (the
\* last call for its root, when a root was given twice) holds the mapping
\* and the identifier of that call's root.
C15_NoCollision ==
    /\ \A i, j \in 1..Len(calls) :
          (calls[i].root # calls[j].root /\ Named(calls[i]) /\ Named(calls[j])) =>
             /\ calls[i].destfilename # calls[j].destfilename
             /\ calls[i].destfunction # calls[j].destfunction
    /\ pc = "done" =>
          \A i \in 1..Len(calls) :
             (calls[i].err = "nil" /\ \A j \in (i + 1)..Len(calls) : calls[j].root # calls[i].root) =>
                /\ calls[i].destfilename \in DOMAIN files
                /\ files[calls[i].destfilename].RootMap = calls[i].fakefs
                /\ files[calls[i].destfilename].RootName = calls[i].destfunction
                /\ files[calls[i].destfilename].complete

\* -------------------------------------------------------------------------
\* Properties of the generated unit (UnitSpec)
\* -------------------------------------------------------------------------
\* The bytes of the file at path p under the root of the unit.
Original(p) ==
    LET tree == Tree(unit.root)
    IN  tree[CHOOSE k \in 1..Len(tree) : tree[k].kind = "file" /\ tree[k].name = p].data

\* C7: the lookup contract.  In a program that imports the file as it was
\* generated, Get<Root>(p) after init returns found = true exactly when p is
\* a key of the bundle, and then the reader holds the bytes of the file at p.
C7_Lookup ==
    (changed = NoChange /\ got.op = "Get") =>
        /\ got.ok <=> got.filename \in DOMAIN unit.RootMap
        /\ got.ok => (got.data = Original(got.filename) /\ got.offset = 0)

\* The names of the elements of the compressed array, in order.
Names == [k \in 1..Len(compressed) |-> compressed[k].name]

\* C8: the order of initialization.  A Get or List is served only after init
\* has returned, and then init has decoded every element of the array once,
\* in order, and the map has all their names; while init runs it has decoded
\* the elements before its index once each; an element that fails to decode
\* ends the program in a panic with nothing served, so no run that reaches
\* Get or List has an element that fails.
C8_InitBeforeLookup ==
    /\ got # NotCalled => upc = "ready"
    /\ upc = "ready" =>
          /\ decoded = Names
          /\ DOMAIN decompressed = {Names[k] : k \in 1..Len(Names)}
          /\ \A k \in 1..Len(compressed) : DecodeEntry(variant, compressed[k].data).st = "ok"
    /\ upc \in {"init", "panic"} =>
          /\ got = NotCalled
          /\ idx \in 1..(Len(compressed) + 1)
          /\ decoded = [k \in 1..(idx - 1) |-> Names[k]]
    /\ upc = "panic" =>
          /\ idx <= Len(compressed)
          /\ DecodeEntry(variant, compressed[idx].data).st # "ok"

\* init panicked on an element of a changed file after it had decoded
\* another: the map was partly populated and nothing was served.
C8_Witness ==
    /\ upc = "panic"
    /\ changed # NoChange
    /\ decoded # <<>>
    /\ Len(decoded) < Len(compressed)
    /\ got = NotCalled

\* What init's loop leaves in the map: under each name the bytes decoded
\* from the last element of compressed with that name.
Snapshot ==
    [n \in {compressed[k].name : k \in 1..Len(compressed)} |->
        LET last == CHOOSE k \in 1..Len(compressed) :
                       /\ compressed[k].name = n
                       /\ \A j \in (k + 1)..Len(compressed) : compressed[j].name # n
        IN  DecodeEntry(variant, compressed[last].data).data]

\* C14: the runtime mapping is read-only after init.  Whatever Get and List
\* calls were made and whatever the caller did with the readers and maps it
\* was returned, the map is what init left; a List call returns a map whose
\* keys are exactly the paths of the bundle, and every reader a call returns
\* is at offset 0 over the whole of the mapped bytes, which for a file as
\* generated are the bytes of the file at that path.
C14_ReadOnly ==
    upc = "ready" =>
        /\ decompressed = Snapshot
        /\ got.op = "Get" =>
              /\ got.offset = 0
              /\ got.ok => got.data = decompressed[got.filename]
        /\ got.op = "List" =>
              /\ DOMAIN got.readers = DOMAIN unit.RootMap
              /\ \A k \in DOMAIN got.readers :
                    /\ got.readers[k] = [data |-> decompressed[k], offset |-> 0]
                    /\ changed = NoChange => got.readers[k].data = Original(k)

====
